---- MODULE Spec2Model ----
(***************************************************************************)
(* A model of the constant-product liquidity pool of src/src/lib.rs.       *)
(*                                                                         *)
(* The pool is one value (struct LiquidityPool).  Every public method is   *)
(* an operator computed as the code computes it, on integers of the code's *)
(* widths scaled down: a reserve (u64) has Bits bits, the constant product *)
(* (u128) has 2 * Bits bits.  An unchecked `+` or `-` that overflows       *)
(* panics when the build has overflow checks (debug profile) and wraps     *)
(* when it has none (release profile); the build is fixed by Init.         *)
(***************************************************************************)
EXTENDS Integers, Sequences, FiniteSets, TLC

\* ------------------------------------------------------------------ bounds
\* Width of a reserve in bits (u64 in the code, scaled down).
Bits == 4
\* Largest reserve a pool is constructed with.
MaxInit == 4
\* Largest amount (token amount, native amount, slippage bound) a caller passes.
MaxAmount == 5

\* ------------------------------------------------------------ integer types
U64_MAX == 2 ^ Bits - 1

\* `x as u64`: the narrowing cast keeps the low Bits bits.
as_u64(x) == x % (2 ^ Bits)

\* Option<u64>
None == << >>
Some(v) == << v >>

\* Result<u64>, and the panic of an overflowing unchecked operation.
Ok(v) == [ok |-> TRUE, val |-> v, err |-> "None"]
Err(e) == [ok |-> FALSE, val |-> 0, err |-> e]
Panic == [ok |-> FALSE, val |-> 0, err |-> "Panic"]
PoolError == {"SlippageExceeded", "InsufficientPoolFunds", "InvalidAmount", "Overflow"}
IsErr(r) == ~r.ok /\ r.err \in PoolError

VARIABLES
    pool,             \* the LiquidityPool value
    overflow_checks,  \* TRUE: the build panics on overflow, FALSE: it wraps
    last              \* the call just made: its arguments, its outcome, the pool before it

vars == << pool, overflow_checks, last >>

\* u64 `a - b` (unchecked): None stands for the panic.
u64_sub(a, b) ==
    IF a >= b THEN Some(a - b)
    ELSE IF overflow_checks THEN None
    ELSE Some(a - b + 2 ^ Bits)

\* u64 `a + b` (unchecked): None stands for the panic.
u64_add(a, b) ==
    IF a + b <= U64_MAX THEN Some(a + b)
    ELSE IF overflow_checks THEN None
    ELSE Some(as_u64(a + b))

checked_sub(a, b) == IF a >= b THEN Some(a - b) ELSE None
checked_add(a, b) == IF a + b <= U64_MAX THEN Some(a + b) ELSE None

\* A division that rounds up instead of down.
checked_div_ceil(a, b) == IF b = 0 THEN None ELSE Some((a + b - 1) \div b)

\* u128 checked_div: None on a zero divisor, else the floor of the quotient.
checked_div(a, b) == IF b = 0 THEN None ELSE Some(a \div b)

\* ---------------------------------------------------------------- the pool
\* LiquidityPool::new on non-zero reserves.
new(native_reserve, token_reserve) ==
    [initial_token_reserve |-> token_reserve,
     native_reserve |-> native_reserve,
     token_reserve |-> token_reserve,
     constant_product |-> native_reserve * token_reserve]

\* The outcome of a `&mut self` method: what it returns and the pool it leaves.
Outcome(r, p) == [res |-> r, pool |-> p]

\* A commit that forgets to write the token reserve.
commit_native_only(p, new_native_reserve, new_token_reserve) ==
    [p EXCEPT !.native_reserve = new_native_reserve]

\* A commit that recomputes the invariant from the reserves it writes.
commit_recompute(p, new_native_reserve, new_token_reserve) ==
    [p EXCEPT !.native_reserve = new_native_reserve,
              !.token_reserve = new_token_reserve,
              !.constant_product = new_native_reserve * new_token_reserve]

\* self.native_reserve = ...; self.token_reserve = ...
commit(p, new_native_reserve, new_token_reserve) ==
    [p EXCEPT !.native_reserve = new_native_reserve,
              !.token_reserve = new_token_reserve]

\* A buy that rejects the whole reserve as well as more than it.
buy_new_token_reserve_strict(p, token_amount) ==
    IF token_amount >= p.token_reserve THEN None
    ELSE Some(p.token_reserve - token_amount)

\* buy, simulate_buy: self.token_reserve.checked_sub(token_amount)
buy_new_token_reserve(p, token_amount) == checked_sub(p.token_reserve, token_amount)

\* self.constant_product.checked_div(new_token_reserve as u128) ... as u64
new_native_reserve_of(p, new_token_reserve) ==
    LET q == checked_div(p.constant_product, new_token_reserve)
    IN  IF q = None THEN None ELSE Some(as_u64(q[1]))

\* A cap that also rejects a cost equal to it.
buy_slippage_strict(native_sold, max_native) ==
    max_native # None /\ native_sold >= max_native[1]

\* buy: the cost is above the caller's cap.
buy_slippage(native_sold, max_native) ==
    max_native # None /\ native_sold > max_native[1]

\* A floor that also rejects a payout equal to it.
sell_slippage_strict(native_bought, min_native) ==
    min_native # None /\ native_bought <= min_native[1]

\* sell: the payout is below the caller's floor.
sell_slippage(native_bought, min_native) ==
    min_native # None /\ native_bought < min_native[1]

buy(p, token_amount, max_native) ==
    IF token_amount = 0 THEN Outcome(Err("InvalidAmount"), p)
    ELSE LET new_token_reserve == buy_new_token_reserve(p, token_amount) IN
    IF new_token_reserve = None THEN Outcome(Err("InsufficientPoolFunds"), p)
    ELSE LET new_native_reserve == new_native_reserve_of(p, new_token_reserve[1]) IN
    IF new_native_reserve = None THEN Outcome(Err("Overflow"), p)
    ELSE LET native_sold == u64_sub(new_native_reserve[1], p.native_reserve) IN
    IF native_sold = None THEN Outcome(Panic, p)
    ELSE IF buy_slippage(native_sold[1], max_native)
         THEN Outcome(Err("SlippageExceeded"), p)
    ELSE Outcome(Ok(native_sold[1]),
                 commit(p, new_native_reserve[1], new_token_reserve[1]))

\* A sell that writes the reserves before it checks the caller's floor.
sell_commit_first(p, token_amount, min_native) ==
    IF token_amount = 0 THEN Outcome(Err("InvalidAmount"), p)
    ELSE IF token_amount > p.token_reserve
         THEN Outcome(Err("InsufficientPoolFunds"), p)
    ELSE LET new_token_reserve == checked_add(p.token_reserve, token_amount) IN
    IF new_token_reserve = None THEN Outcome(Err("Overflow"), p)
    ELSE LET new_native_reserve == new_native_reserve_of(p, new_token_reserve[1]) IN
    IF new_native_reserve = None THEN Outcome(Err("Overflow"), p)
    ELSE LET native_bought == u64_sub(p.native_reserve, new_native_reserve[1]) IN
    IF native_bought = None THEN Outcome(Panic, p)
    ELSE IF sell_slippage(native_bought[1], min_native)
         THEN Outcome(Err("SlippageExceeded"),
                      commit(p, new_native_reserve[1], new_token_reserve[1]))
    ELSE Outcome(Ok(native_bought[1]),
                 commit(p, new_native_reserve[1], new_token_reserve[1]))

sell(p, token_amount, min_native) ==
    IF token_amount = 0 THEN Outcome(Err("InvalidAmount"), p)
    ELSE IF token_amount > p.token_reserve
         THEN Outcome(Err("InsufficientPoolFunds"), p)
    ELSE LET new_token_reserve == checked_add(p.token_reserve, token_amount) IN
    IF new_token_reserve = None THEN Outcome(Err("Overflow"), p)
    ELSE LET new_native_reserve == new_native_reserve_of(p, new_token_reserve[1]) IN
    IF new_native_reserve = None THEN Outcome(Err("Overflow"), p)
    ELSE LET native_bought == u64_sub(p.native_reserve, new_native_reserve[1]) IN
    IF native_bought = None THEN Outcome(Panic, p)
    ELSE IF sell_slippage(native_bought[1], min_native)
         THEN Outcome(Err("SlippageExceeded"), p)
    ELSE Outcome(Ok(native_bought[1]),
                 commit(p, new_native_reserve[1], new_token_reserve[1]))

\* simulate_buy: the bound is a minimum, and nothing is written.
simulate_buy(p, token_amount, min_native) ==
    IF token_amount = 0 THEN Err("InvalidAmount")
    ELSE LET new_token_reserve == buy_new_token_reserve(p, token_amount) IN
    IF new_token_reserve = None THEN Err("InsufficientPoolFunds")
    ELSE LET new_native_reserve == new_native_reserve_of(p, new_token_reserve[1]) IN
    IF new_native_reserve = None THEN Err("Overflow")
    ELSE LET native_sold == u64_sub(new_native_reserve[1], p.native_reserve) IN
    IF native_sold = None THEN Panic
    ELSE IF min_native # None /\ native_sold[1] < min_native[1]
         THEN Err("SlippageExceeded")
    ELSE Ok(native_sold[1])

\* A quote that rejects selling as much as the pool holds.
simulate_sell_strict(p, token_amount, max_native) ==
    IF token_amount = 0 THEN Err("InvalidAmount")
    ELSE IF token_amount >= p.token_reserve THEN Err("InsufficientPoolFunds")
    ELSE LET new_token_reserve == checked_add(p.token_reserve, token_amount) IN
    IF new_token_reserve = None THEN Err("Overflow")
    ELSE LET new_native_reserve == new_native_reserve_of(p, new_token_reserve[1]) IN
    IF new_native_reserve = None THEN Err("Overflow")
    ELSE LET native_sold == u64_sub(p.native_reserve, new_native_reserve[1]) IN
    IF native_sold = None THEN Panic
    ELSE IF max_native # None /\ native_sold[1] > max_native[1]
         THEN Err("SlippageExceeded")
    ELSE Ok(native_sold[1])

\* simulate_sell: the bound is a maximum, and nothing is written.
simulate_sell(p, token_amount, max_native) ==
    IF token_amount = 0 THEN Err("InvalidAmount")
    ELSE IF token_amount > p.token_reserve THEN Err("InsufficientPoolFunds")
    ELSE LET new_token_reserve == checked_add(p.token_reserve, token_amount) IN
    IF new_token_reserve = None THEN Err("Overflow")
    ELSE LET new_native_reserve == new_native_reserve_of(p, new_token_reserve[1]) IN
    IF new_native_reserve = None THEN Err("Overflow")
    ELSE LET native_sold == u64_sub(p.native_reserve, new_native_reserve[1]) IN
    IF native_sold = None THEN Panic
    ELSE IF max_native # None /\ native_sold[1] > max_native[1]
         THEN Err("SlippageExceeded")
    ELSE Ok(native_sold[1])

calculate_tokens_received(p, native_amount) ==
    IF native_amount = 0 THEN Err("InvalidAmount")
    ELSE LET new_native_reserve == u64_add(p.native_reserve, native_amount) IN
    IF new_native_reserve = None THEN Panic
    ELSE LET q == checked_div(p.constant_product, new_native_reserve[1]) IN
    IF q = None THEN Err("Overflow")
    ELSE LET tokens == u64_sub(p.token_reserve, as_u64(q[1])) IN
    IF tokens = None THEN Panic
    ELSE Ok(tokens[1])

buy_tokens_with_native(p, native_amount) ==
    IF native_amount = 0 THEN Outcome(Err("InvalidAmount"), p)
    ELSE LET token_amount == calculate_tokens_received(p, native_amount) IN
    IF ~token_amount.ok THEN Outcome(token_amount, p)
    ELSE LET bought == buy(p, token_amount.val, None) IN
    IF ~bought.res.ok THEN bought
    ELSE Outcome(Ok(token_amount.val), bought.pool)

\* One pass of the `while low <= high` loop and the passes after it.
RECURSIVE search(_, _, _, _, _, _)
search(p, sell_tokens, desired_native, low, high, best_guess) ==
    IF low > high THEN Ok(best_guess)
    ELSE LET mid == low + (high - low) \div 2
             \* temp_pool = self.clone(); temp_pool.buy(mid, None)?
             bought == buy(p, mid, None)
         IN
    IF ~bought.res.ok THEN bought.res
    ELSE LET native_received == simulate_sell(bought.pool, sell_tokens, None) IN
    IF ~native_received.ok THEN native_received
    ELSE IF native_received.val = desired_native THEN Ok(mid)
    ELSE LET less == native_received.val < desired_native
             new_low == IF less THEN checked_add(mid, 1) ELSE Some(low)
             new_high == IF less THEN Some(high) ELSE checked_sub(mid, 1)
             new_best == IF less THEN best_guess ELSE mid
         IN
    IF new_low = None \/ new_high = None THEN Err("Overflow")
    ELSE LET width == u64_sub(new_high[1], new_low[1]) IN
    IF width = None THEN Panic
    ELSE IF width[1] <= 1 THEN Ok(new_best)
    ELSE search(p, sell_tokens, desired_native, new_low[1], new_high[1], new_best)

\* The brackets <<low, high>> the loop goes through on the same inputs: the one
\* each pass starts from and, after a pass that reaches line 224, the one it
\* leaves; with the number of passes that probe (buy on a clone).
RECURSIVE search_trace(_, _, _, _, _)
search_trace(p, sell_tokens, desired_native, low, high) ==
    IF low > high THEN [brackets |-> << >>, probes |-> 0]
    ELSE LET mid == low + (high - low) \div 2
             bought == buy(p, mid, None)
             here == [brackets |-> << << low, high >> >>, probes |-> 1]
         IN
    IF ~bought.res.ok THEN here
    ELSE LET native_received == simulate_sell(bought.pool, sell_tokens, None) IN
    IF ~native_received.ok \/ native_received.val = desired_native THEN here
    ELSE LET less == native_received.val < desired_native
             new_low == IF less THEN checked_add(mid, 1) ELSE Some(low)
             new_high == IF less THEN Some(high) ELSE checked_sub(mid, 1)
         IN
    IF new_low = None \/ new_high = None THEN here
    ELSE LET width == u64_sub(new_high[1], new_low[1])
             left == << << low, high >>, << new_low[1], new_high[1] >> >>
         IN
    IF width = None \/ width[1] <= 1 THEN [brackets |-> left, probes |-> 1]
    ELSE LET rest == search_trace(p, sell_tokens, desired_native,
                                  new_low[1], new_high[1])
         IN  [brackets |-> IF rest.probes = 0 THEN left
                           ELSE << << low, high >> >> \o rest.brackets,
              probes |-> 1 + rest.probes]

\* A solver that buys the amount it found on the live pool before it returns.
calculate_additional_applied(p, sell_tokens, desired_native) ==
    IF sell_tokens = 0 \/ desired_native = 0 THEN Outcome(Err("InvalidAmount"), p)
    ELSE LET found == search(p, sell_tokens, desired_native,
                             0, p.token_reserve, p.token_reserve)
         IN  IF found.ok THEN Outcome(found, buy(p, found.val, None).pool)
             ELSE Outcome(found, p)

\* The method takes `&mut self` and writes nothing to it: every probe runs on a clone.
calculate_additional_tokens_for_desired_native(p, sell_tokens, desired_native) ==
    IF sell_tokens = 0 \/ desired_native = 0 THEN Outcome(Err("InvalidAmount"), p)
    ELSE Outcome(search(p, sell_tokens, desired_native,
                        0, p.token_reserve, p.token_reserve), p)

\* ------------------------------------------------------------- the callers
Amounts == 0 .. MaxAmount
Limits == {None} \cup {Some(v) : v \in Amounts}
InitReserves == 1 .. MaxInit

\* No call is recorded: the pool is as constructed, or the caller has dropped
\* the Result of its last call.
Idle ==
    [op |-> "idle", amount |-> 0, limit |-> None, res |-> Ok(0),
     before |-> new(0, 0)]

Called(op, amount, limit, res) ==
    [op |-> op, amount |-> amount, limit |-> limit, res |-> res, before |-> pool]

Init ==
    /\ \E n \in InitReserves, t \in InitReserves : pool = new(n, t)
    /\ overflow_checks \in BOOLEAN
    /\ last = Idle

\* A `&mut self` call: the pool becomes what the method leaves.
Mutating(op, amount, limit, out) ==
    /\ last = Idle
    /\ pool' = out.pool
    /\ last' = Called(op, amount, limit, out.res)
    /\ UNCHANGED overflow_checks

\* A `&self` call: the pool cannot change.
Reading(op, amount, limit, res) ==
    /\ last = Idle
    /\ last' = Called(op, amount, limit, res)
    /\ UNCHANGED << pool, overflow_checks >>

Buy ==
    \E a \in Amounts, m \in Limits : Mutating("buy", a, m, buy(pool, a, m))

Sell ==
    \E a \in Amounts, m \in Limits : Mutating("sell", a, m, sell(pool, a, m))

SimulateBuy ==
    \E a \in Amounts, m \in Limits :
        Reading("simulate_buy", a, m, simulate_buy(pool, a, m))

SimulateSell ==
    \E a \in Amounts, m \in Limits :
        Reading("simulate_sell", a, m, simulate_sell(pool, a, m))

CalculateTokensReceived ==
    \E a \in Amounts :
        Reading("calculate_tokens_received", a, None,
                calculate_tokens_received(pool, a))

BuyTokensWithNative ==
    \E a \in Amounts :
        Mutating("buy_tokens_with_native", a, None, buy_tokens_with_native(pool, a))

\* amount is sell_tokens, limit is Some(desired_native).
CalculateAdditionalTokens ==
    \E s \in Amounts, d \in Amounts :
        Mutating("calculate_additional_tokens_for_desired_native", s, Some(d),
                 calculate_additional_tokens_for_desired_native(pool, s, d))

\* The caller is done with the Result of its call.  A panic ends the run.
DropResult ==
    /\ last # Idle
    /\ last.res # Panic
    /\ last' = Idle
    /\ UNCHANGED << pool, overflow_checks >>

Next ==
    \/ Buy
    \/ Sell
    \/ SimulateBuy
    \/ SimulateSell
    \/ CalculateTokensReceived
    \/ BuyTokensWithNative
    \/ CalculateAdditionalTokens
    \/ DropResult

Spec == Init /\ [][Next]_vars

\* The calls the claims speak of.
Did(op) == last.op = op
Succeeded(op) == last.op = op /\ last.res.ok
Failed(op) == last.op = op /\ IsErr(last.res)

\* ------------------------------------------------------------------ claims
Solver == "calculate_additional_tokens_for_desired_native"

\* C1: in every reachable state native_reserve > 0 and token_reserve > 0.
C1_ReservesPositive ==
    pool.native_reserve > 0 /\ pool.token_reserve > 0

\* C2: after every successful buy or sell the actual product
\* native_reserve * token_reserve is at most the stored constant_product.
C2_ProductAtMostConstant ==
    (Succeeded("buy") \/ Succeeded("sell"))
        => pool.native_reserve * pool.token_reserve <= pool.constant_product

\* A sell has succeeded and rounding has taken the product strictly below k.
C2_Witness ==
    /\ Succeeded("sell")
    /\ pool # last.before
    /\ pool.native_reserve * pool.token_reserve < pool.constant_product

\* C3: when buy, sell, buy_tokens_with_native or the inverse solver returns an
\* error, the pool (both reserves and constant_product) is what it was before.
C3_ErrorLeavesPool ==
    \A op \in {"buy", "sell", "buy_tokens_with_native", Solver} :
        Failed(op) => pool = last.before

\* A sell has computed a payout and then failed on the caller's floor.
C3_Witness ==
    /\ Failed("sell")
    /\ last.res.err = "SlippageExceeded"
    /\ sell(last.before, last.amount, None).pool # last.before
    /\ pool = last.before

\* C4 as stated: buy(token_reserve, None) fails with InsufficientPoolFunds.
C4_WholeReserveInsufficient ==
    (Did("buy") /\ last.limit = None /\ last.amount = last.before.token_reserve)
        => last.res = Err("InsufficientPoolFunds")

\* C4 amended: buy(token_reserve, None) fails with Overflow: the checked
\* subtraction yields zero and the division by it is what is rejected.
C4_WholeReserveOverflow ==
    (Did("buy") /\ last.limit = None /\ last.amount = last.before.token_reserve)
        => last.res = Err("Overflow") /\ pool = last.before

\* A buy of exactly the token reserve has been made.
C4_Witness ==
    /\ Did("buy")
    /\ last.limit = None
    /\ last.amount = last.before.token_reserve
    /\ last.before.token_reserve > 1
    /\ last.res = Err("Overflow")

\* C5: if simulate_buy(a, None) returns c >= 1 then buy(a, Some(c - 1)) fails
\* with SlippageExceeded and buy(a, Some(c)) succeeds and returns c.
C5_BuySlippageGuard ==
    /\ \A a \in Amounts :
        LET c == simulate_buy(pool, a, None) IN
        (c.ok /\ c.val >= 1) =>
            /\ buy(pool, a, Some(c.val - 1)).res = Err("SlippageExceeded")
            /\ buy(pool, a, Some(c.val)).res = Ok(c.val)
    /\ (Did("buy") /\ last.limit # None) =>
        LET c == simulate_buy(last.before, last.amount, None) IN
        (c.ok /\ c.val >= 1) =>
            /\ last.limit = Some(c.val - 1) => last.res = Err("SlippageExceeded")
            /\ last.limit = Some(c.val) => last.res = Ok(c.val)

\* A buy capped one below its quoted cost has failed on the cap.
C5_Witness ==
    /\ Failed("buy")
    /\ last.res.err = "SlippageExceeded"
    /\ LET c == simulate_buy(last.before, last.amount, None)
       IN  c.ok /\ c.val >= 1 /\ last.limit = Some(c.val - 1)

\* C6: if simulate_sell(a, None) returns g then sell(a, Some(g + 1)) fails with
\* SlippageExceeded and leaves the reserves unchanged, and sell(a, Some(g))
\* succeeds and returns g.  (g + 1 is a bound only while it fits the width.)
C6_SellSlippageGuard ==
    /\ \A a \in Amounts :
        LET g == simulate_sell(pool, a, None) IN
        g.ok =>
            /\ g.val < U64_MAX =>
                sell(pool, a, Some(g.val + 1)) = Outcome(Err("SlippageExceeded"), pool)
            /\ sell(pool, a, Some(g.val)).res = Ok(g.val)
    /\ (Did("sell") /\ last.limit # None) =>
        LET g == simulate_sell(last.before, last.amount, None) IN
        g.ok =>
            /\ last.limit = Some(g.val + 1) =>
                last.res = Err("SlippageExceeded") /\ pool = last.before
            /\ last.limit = Some(g.val) => last.res = Ok(g.val)

\* A sell asking one more than its quoted payout has failed on the floor.
C6_Witness ==
    /\ Failed("sell")
    /\ last.res.err = "SlippageExceeded"
    /\ pool = last.before
    /\ LET g == simulate_sell(last.before, last.amount, None)
       IN  g.ok /\ g.val >= 1 /\ last.limit = Some(g.val + 1)

\* C7: a successful buy(token_amount, bound) returning native_spent takes
\* token_amount off token_reserve and adds native_spent to native_reserve.
C7_BuyMovesReserves ==
    Succeeded("buy") =>
        /\ pool.token_reserve = last.before.token_reserve - last.amount
        /\ pool.native_reserve = last.before.native_reserve + last.res.val

\* C8: a successful sell(token_amount, bound) returning native_received adds
\* token_amount to token_reserve and takes native_received off native_reserve.
C8_SellMovesReserves ==
    Succeeded("sell") =>
        /\ pool.token_reserve = last.before.token_reserve + last.amount
        /\ pool.native_reserve = last.before.native_reserve - last.res.val

\* C9: when the inverse solver returns Ok(x), buy(x, None) and then
\* sell(sell_tokens, None) on that pool both succeed and the sell pays at
\* least desired_native.
C9_SolverMeetsTarget ==
    Succeeded(Solver) =>
        LET bought == buy(last.before, last.res.val, None) IN
        /\ bought.res.ok
        /\ LET sold == sell(bought.pool, last.amount, None)
           IN  sold.res.ok /\ sold.res.val >= last.limit[1]

\* C10: a successful buy_tokens_with_native(native_amount) adds exactly
\* native_amount to native_reserve.
C10_SpendsExactlyNative ==
    Succeeded("buy_tokens_with_native") =>
        pool.native_reserve = last.before.native_reserve + last.amount

\* A pool as LiquidityPool::new leaves it.
Fresh(p) ==
    /\ p.native_reserve > 0
    /\ p.token_reserve > 0
    /\ p = new(p.native_reserve, p.token_reserve)

\* C11: on a freshly constructed pool, for 0 < token_amount < token_reserve,
\* buy and simulate_buy return either an explicit error or exactly
\* floor(constant_product / (token_reserve - token_amount)) - native_reserve:
\* the quotient fits the reserve width and nothing wraps or aborts.
C11_BuyExactOrError ==
    ( /\ Did("buy") \/ Did("simulate_buy")
      /\ last.limit = None
      /\ Fresh(last.before)
      /\ 0 < last.amount
      /\ last.amount < last.before.token_reserve )
        => LET quotient == last.before.constant_product
                               \div (last.before.token_reserve - last.amount)
           IN  \/ IsErr(last.res)
               \/ /\ quotient <= U64_MAX
                  /\ last.res = Ok(quotient - last.before.native_reserve)

\* A pool whose native reserve is the untruncated quotient of its invariant.
Exact(p) ==
    /\ p.native_reserve > 0
    /\ p.native_reserve = p.constant_product \div p.token_reserve

\* C12: calculate_tokens_received(native_amount) with native_amount > 0
\* returns Overflow when native_reserve + native_amount exceeds the reserve
\* width, and token_reserve - floor(constant_product / (native_reserve +
\* native_amount)) otherwise.
C12_TokensReceivedChecked ==
    (Did("calculate_tokens_received") /\ last.amount > 0 /\ Exact(last.before))
        => IF last.before.native_reserve + last.amount > U64_MAX
           THEN last.res = Err("Overflow")
           ELSE last.res =
                    Ok(last.before.token_reserve
                       - last.before.constant_product
                             \div (last.before.native_reserve + last.amount))

\* C13 as stated: after a successful inverse solver call returning x the live
\* pool is the one buy(x, None) leaves from the pool before the call.
C13_SolverAppliesCandidate ==
    Succeeded(Solver) => pool = buy(last.before, last.res.val, None).pool

\* C13 amended: the inverse solver only computes.  Whatever it returns, the
\* live pool is exactly the pool before the call: every probe, the winning one
\* included, ran on a clone, and applying the result is left to the caller.
C13_SolverLeavesPool ==
    Did(Solver) => pool = last.before

\* The solver has returned an amount that buy would accept, and has not bought it.
C13_Witness ==
    /\ Succeeded(Solver)
    /\ buy(last.before, last.res.val, None).res.ok
    /\ buy(last.before, last.res.val, None).pool # last.before
    /\ pool = last.before

RECURSIVE floor_log2(_)
floor_log2(n) == IF n <= 1 THEN 0 ELSE 1 + floor_log2(n \div 2)

\* The loop of the solver call just made, replayed.
LastSearch ==
    search_trace(last.before, last.amount, last.limit[1],
                 0, last.before.token_reserve)

\* C14, the loop: every pass that does not return strictly shrinks the bracket
\* high - low, high - low never goes below zero, and at most
\* floor(log2(token_reserve)) + 1 probes are made.
C14_LoopBounded ==
    (Did(Solver) /\ last.amount > 0 /\ last.limit[1] > 0) =>
        LET b == LastSearch.brackets IN
        /\ \A i \in 1 .. Len(b) : b[i][2] >= b[i][1]
        /\ \A i \in 1 .. Len(b) - 1 :
               b[i + 1][2] - b[i + 1][1] < b[i][2] - b[i][1]
        /\ LastSearch.probes <= floor_log2(last.before.token_reserve) + 1

\* C14: the inverse solver always terminates with a value or an error, for
\* every pool and input, its loop being bounded as C14_LoopBounded says.
C14_SolverTerminates ==
    /\ Did(Solver) => (last.res.ok \/ IsErr(last.res))
    /\ C14_LoopBounded

\* C15: constant_product is initial native_reserve * initial token_reserve
\* after new(n, t), and no operation, successful or failed, ever changes it.
C15_ConstantProductFixed ==
    /\ pool.constant_product = pool.native_reserve * pool.token_reserve
    /\ [][pool'.constant_product = pool.constant_product]_vars

\* A trade has moved the reserves off the curve and left constant_product alone.
C15_Witness ==
    /\ Succeeded("buy_tokens_with_native")
    /\ pool.native_reserve * pool.token_reserve # pool.constant_product
    /\ pool.constant_product = last.before.constant_product
    /\ pool.constant_product
           = last.before.native_reserve * last.before.token_reserve

\* simulate_sell(sell_tokens, None) on a copy of p after buy(m, None) on it.
payout_after_buy(p, m, sell_tokens) ==
    LET bought == buy(p, m, None)
    IN  IF ~bought.res.ok THEN bought.res
        ELSE simulate_sell(bought.pool, sell_tokens, None)

\* C16: for every pool, every sell_tokens and all buy sizes m1 <= m2 for which
\* buy(m, None) then simulate_sell(sell_tokens, None) succeed on a copy, the
\* payout after buying m2 is at least the payout after buying m1.  (Stated on
\* the pools whose reserves are exact, so that no earlier truncation is involved.)
C16_PayoutMonotone ==
    (last = Idle /\ Exact(pool)) =>
        \A sell_tokens \in Amounts, m1 \in 1 .. U64_MAX, m2 \in 1 .. U64_MAX :
            LET r1 == payout_after_buy(pool, m1, sell_tokens)
                r2 == payout_after_buy(pool, m2, sell_tokens)
            IN  (m1 <= m2 /\ r1.ok /\ r2.ok) => r1.val <= r2.val

\* C17: on any reachable pool and for any token_amount, simulate_buy(a, None)
\* has the outcome buy(a, None) would have (same value or same error), and
\* simulate_sell(a, None) the outcome of sell(a, None).
C17_QuoteMatchesExecution ==
    /\ last = Idle =>
        \A a \in 0 .. U64_MAX :
            /\ simulate_buy(pool, a, None) = buy(pool, a, None).res
            /\ simulate_sell(pool, a, None) = sell(pool, a, None).res
    /\ (Did("buy") /\ last.limit = None) =>
        last.res = simulate_buy(last.before, last.amount, None)
    /\ (Did("sell") /\ last.limit = None) =>
        last.res = simulate_sell(last.before, last.amount, None)
    /\ (Did("simulate_buy") /\ last.limit = None) =>
        last.res = buy(last.before, last.amount, None).res
    /\ (Did("simulate_sell") /\ last.limit = None) =>
        last.res = sell(last.before, last.amount, None).res

\* A sell has been quoted, and executing it would move the pool and pay the quote.
C17_Witness ==
    /\ Succeeded("simulate_sell")
    /\ last.limit = None
    /\ last.res.val >= 1
    /\ pool = last.before
    /\ sell(pool, last.amount, None).res = last.res
    /\ sell(pool, last.amount, None).pool # pool

\* The call just made was passed a zero amount (token_amount, native_amount,
\* sell_tokens or desired_native).
ZeroAmountPassed ==
    \/ last.amount = 0
    \/ last.op = Solver /\ last.limit = Some(0)

\* C18: an operation fails with InvalidAmount exactly when an amount passed
\* to it is zero.
C18_InvalidAmountIffZero ==
    last # Idle => (last.res = Err("InvalidAmount") <=> ZeroAmountPassed)

\* C19: in every reachable state native_reserve equals
\* floor(constant_product / token_reserve).
C19_NativeIsQuotient ==
    pool.native_reserve = pool.constant_product \div pool.token_reserve

\* C20: from any reachable pool, if buy(a, None) succeeds returning s and the
\* sell(a, None) right after it succeeds returning r, then r = s and both
\* reserves are back to their values before the buy.
C20_RoundTrip ==
    last = Idle =>
        \A a \in 0 .. U64_MAX :
            LET bought == buy(pool, a, None) IN
            bought.res.ok =>
                LET sold == sell(bought.pool, a, None) IN
                sold.res.ok =>
                    /\ sold.res.val = bought.res.val
                    /\ sold.pool.native_reserve = pool.native_reserve
                    /\ sold.pool.token_reserve = pool.token_reserve

\* A sell has just undone a buy of the same amount: buying it again from the
\* pool as it is now gives back the pool the sell started from, at the price
\* the sell paid.
C20_Witness ==
    /\ Succeeded("sell")
    /\ last.limit = None
    /\ last.res.val >= 1
    /\ ~Fresh(last.before)
    /\ Exact(pool)
    /\ LET bought == buy(pool, last.amount, None)
       IN  /\ bought.res.ok
           /\ bought.pool = last.before
           /\ bought.res.val = last.res.val

====
